---- MODULE Spec2Model ----
(***************************************************************************)
(* Event lifecycle / escrow state machine of the predictory program        *)
(* (programs/predictory/src/context/event.rs): CreateEvent, UpdateEvent    *)
(* (name, description, end date, participation deadline), CancelEvent and  *)
(* CompleteEvent over the User, Event, EventMeta and State accounts and    *)
(* the lamport balances the handlers move with withdraw_sol.               *)
(***************************************************************************)
EXTENDS Integers, Sequences, FiniteSets, TLC

----------------------------------------------------------------------------
(* Bounds of the model *)

\* dates carried by instruction arguments range over 1..MaxDate
MaxDate == 3
\* a user's deposited stake in the initial state ranges over 0..MaxStake
MaxStake == 2
\* event_price of the State account ranges over 1..MaxPrice
MaxPrice == 2
\* stand-in for 2^64, the modulus of a wrapping u64 subtraction; larger than
\* every amount of lamports the model can hold
U64Wrap == 64

----------------------------------------------------------------------------
(* Program constants and fixed sets *)

\* context::COMPLETION_DEADLINE, in clock units
COMPLETION_DEADLINE == 1
\* context::UUID_VERSION
UUID_VERSION == 4
\* Event::VERSION and EventMeta::VERSION
EVENT_VERSION == 1
EVENT_META_VERSION == 1
\* position of the version field of an event id (bit 76 of the u128, here
\* the second hexadecimal digit)
VersionShift == 16

Principals == {"alice", "bob"}
Admin == "admin"
Wallets == Principals \cup {Admin}

\* two version-4 identifiers and one version-1 identifier
EventIds == {4 * VersionShift + 1, 4 * VersionShift + 2, 1 * VersionShift + 1}
\* one version-4 identifier and the version-1 identifier
OneEventIds == {4 * VersionShift + 1, 1 * VersionShift + 1}

Names == {"n1", "n2"}
Descriptions == {"d1", "d2"}
Results == {0, 1}

Dates == 1..MaxDate
MaxTime == MaxDate + COMPLETION_DEADLINE + 1

\* Option<T>: None is the empty sequence, Some(v) the sequence <<v>>
None == <<>>
Some(v) == <<v>>
IsSome(o) == Len(o) = 1
OptDates == {None} \cup {Some(d) : d \in Dates}

\* CreateEventArgs
CreateEventArgs ==
    [name : Names, is_private : BOOLEAN, description : Descriptions,
     start_date : Dates, end_date : Dates, participation_deadline : OptDates]
\* the arguments of one fixed schedule
FixedArgs ==
    [name : {"n1"}, is_private : {FALSE}, description : {"d1"},
     start_date : {1}, end_date : {2}, participation_deadline : {None}]

Ok == "Ok"

VARIABLES
    now,          \* Clock::get()?.unix_timestamp
    state,        \* the State account: authority (admin) and event_price
    user,         \* the User account of each principal: stake, locked_stake
    event,        \* the Event accounts that exist, by event id
    event_meta,   \* the EventMeta accounts that exist, by event id
    lamports      \* balances: of User accounts, Event accounts and wallets

vars == <<now, state, user, event, event_meta, lamports>>

----------------------------------------------------------------------------
(* Helpers *)

\* uuid::Uuid::get_version_num of Uuid::from_u128(event_id)
get_version_num(event_id) == (event_id \div VersionShift) % 16

\* the accounts a handler moves lamports between
UserAcc(p) == [kind |-> "user", key |-> p]
EventAcc(id) == [kind |-> "event", key |-> id]
WalletAcc(w) == [kind |-> "wallet", key |-> w]

Balance(l, acc) ==
    IF acc.kind = "user" THEN l.user[acc.key]
    ELSE IF acc.kind = "event" THEN l.event[acc.key]
    ELSE l.wallet[acc.key]

SetBalance(l, acc, v) ==
    IF acc.kind = "user" THEN [l EXCEPT !.user[acc.key] = v]
    ELSE IF acc.kind = "event" THEN [l EXCEPT !.event[acc.key] = v]
    ELSE [l EXCEPT !.wallet[acc.key] = v]

\* context::withdraw_sol: move amount lamports from src to dst, failing if
\* src holds less than amount
withdraw_sol(l, src, dst, amount) ==
    IF Balance(l, src) < amount
    THEN [err |-> "InsufficientFunds", lamports |-> l]
    ELSE LET l1 == SetBalance(l, src, Balance(l, src) - amount)
         IN  [err |-> Ok,
              lamports |-> SetBalance(l1, dst, Balance(l1, dst) + amount)]

\* a -= b on u64: with overflow checks the build panics on underflow,
\* without them the value wraps
sub_u64(a, b, overflow_checks) ==
    IF a >= b THEN [panic |-> FALSE, uflow |-> FALSE, v |-> a - b]
    ELSE IF overflow_checks THEN [panic |-> TRUE, uflow |-> TRUE, v |-> a]
    ELSE [panic |-> FALSE, uflow |-> TRUE, v |-> a - b + U64Wrap]

\* variant: the range taken half-open, (start..end).contains(&d)
RangeContains_exclusive(start, end, d) == start <= d /\ d < end

\* (start..=end).contains(&d)
RangeContains(start, end, d) == start <= d /\ d <= end

\* what a handler hands back: its error code, whether a subtraction went
\* below zero, what the transfer did, and the accounts as it left them
Outcome(err, uflow, xfer, u, e, m, l) ==
    [err |-> err, uflow |-> uflow, xfer |-> xfer,
     user |-> u, event |-> e, event_meta |-> m, lamports |-> l]

Reject(err) == Outcome(err, FALSE, "none", user, event, event_meta, lamports)

----------------------------------------------------------------------------
(* CreateEvent *)

\* #[derive(Accounts)] CreateEvent: `init` of the event and event_meta
\* accounts fails when the identifier is already in use
CreateEventAccounts(authority, event_id) ==
    IF event_id \in DOMAIN event THEN "AccountInUse" ELSE Ok

\* CreateEvent::validate
validate(event_id, args) ==
    IF get_version_num(event_id) # UUID_VERSION THEN "InvalidUUID"
    ELSE IF ~(args.start_date < args.end_date) THEN "InvalidEndDate"
    ELSE IF /\ IsSome(args.participation_deadline)
            /\ ~RangeContains(args.start_date, args.end_date,
                              args.participation_deadline[1])
         THEN "InvalidEndDate"
    ELSE Ok

\* variants of create_event: "strict_stake" demands stake > event_price,
\* "no_lock" leaves locked_stake as it was, "no_debit" leaves stake as it was,
\* "half_transfer" moves event_price \div 2 into the vault
create_event_variant(authority, event_id, args, overflow_checks, variant) ==
    LET v == validate(event_id, args)
        u == user[authority]
        stake == state.event_price
        new_event == [id |-> event_id,
                      authority |-> authority,
                      stake |-> stake,
                      start_date |-> args.start_date,
                      end_date |-> args.end_date,
                      participation_deadline |-> args.participation_deadline,
                      canceled |-> FALSE,
                      result |-> None,
                      version |-> EVENT_VERSION]
        new_meta == [event_id |-> event_id,
                     is_private |-> args.is_private,
                     description |-> args.description,
                     name |-> args.name,
                     version |-> EVENT_META_VERSION]
        event1 == event @@ (event_id :> new_event)
        meta1 == event_meta @@ (event_id :> new_meta)
        s1 == sub_u64(u.stake, stake, overflow_checks)
        locked1 == IF variant = "no_lock" THEN u.locked_stake
                   ELSE u.locked_stake + stake
        stake1 == IF variant = "no_debit" THEN u.stake ELSE s1.v
        user1 == [user EXCEPT ![authority] =
                     [stake |-> stake1, locked_stake |-> locked1]]
        w == withdraw_sol(lamports, UserAcc(authority), EventAcc(event_id),
                          IF variant = "half_transfer" THEN stake \div 2 ELSE stake)
        enough == IF variant = "strict_stake" THEN u.stake > state.event_price
                  ELSE u.stake >= state.event_price
    IN  IF v # Ok THEN Reject(v)
        ELSE IF ~enough THEN Reject("StakeTooLow")
        ELSE IF s1.panic
             THEN Outcome("Panic", TRUE, "none", user, event1, meta1, lamports)
        ELSE IF w.err # Ok
             THEN Outcome(w.err, s1.uflow, "failed", user1, event1, meta1, lamports)
        ELSE Outcome(Ok, s1.uflow, "ok", user1, event1, meta1, w.lamports)

create_event_strict_stake(authority, event_id, args, overflow_checks) ==
    create_event_variant(authority, event_id, args, overflow_checks, "strict_stake")

create_event_no_lock(authority, event_id, args, overflow_checks) ==
    create_event_variant(authority, event_id, args, overflow_checks, "no_lock")

create_event_half_transfer(authority, event_id, args, overflow_checks) ==
    create_event_variant(authority, event_id, args, overflow_checks,
                         "half_transfer")

create_event_no_debit(authority, event_id, args, overflow_checks) ==
    create_event_variant(authority, event_id, args, overflow_checks, "no_debit")

\* CreateEvent::create_event
create_event(authority, event_id, args, overflow_checks) ==
    LET v == validate(event_id, args)
        u == user[authority]
        stake == state.event_price
        new_event == [id |-> event_id,
                      authority |-> authority,
                      stake |-> stake,
                      start_date |-> args.start_date,
                      end_date |-> args.end_date,
                      participation_deadline |-> args.participation_deadline,
                      canceled |-> FALSE,
                      result |-> None,
                      version |-> EVENT_VERSION]
        new_meta == [event_id |-> event_id,
                     is_private |-> args.is_private,
                     description |-> args.description,
                     name |-> args.name,
                     version |-> EVENT_META_VERSION]
        event1 == event @@ (event_id :> new_event)
        meta1 == event_meta @@ (event_id :> new_meta)
        s1 == sub_u64(u.stake, stake, overflow_checks)
        user1 == [user EXCEPT ![authority] =
                     [stake |-> s1.v, locked_stake |-> u.locked_stake + stake]]
        w == withdraw_sol(lamports, UserAcc(authority), EventAcc(event_id), stake)
    IN  IF v # Ok THEN Reject(v)
        ELSE IF ~(u.stake >= state.event_price) THEN Reject("StakeTooLow")
        ELSE IF s1.panic
             THEN Outcome("Panic", TRUE, "none", user, event1, meta1, lamports)
        ELSE IF w.err # Ok
             THEN Outcome(w.err, s1.uflow, "failed", user1, event1, meta1, lamports)
        ELSE Outcome(Ok, s1.uflow, "ok", user1, event1, meta1, w.lamports)

----------------------------------------------------------------------------
(* UpdateEvent *)

\* variant: the start date compared with >=
UpdateEventAccounts_ge(authority, event_id) ==
    IF event_id \notin DOMAIN event THEN "AccountNotInitialized"
    ELSE IF ~(event[event_id].authority = authority) THEN "AuthorityMismatch"
    ELSE IF ~(event[event_id].start_date >= now) THEN "EventAlreadyStarted"
    ELSE Ok

\* variant: the clock compared with the end date
UpdateEventAccounts_end_gate(authority, event_id) ==
    IF event_id \notin DOMAIN event THEN "AccountNotInitialized"
    ELSE IF ~(event[event_id].authority = authority) THEN "AuthorityMismatch"
    ELSE IF ~(event[event_id].end_date > now) THEN "EventAlreadyStarted"
    ELSE Ok

\* #[derive(Accounts)] UpdateEvent: the constraints on the event account
UpdateEventAccounts(authority, event_id) ==
    IF event_id \notin DOMAIN event THEN "AccountNotInitialized"
    ELSE IF ~(event[event_id].authority = authority) THEN "AuthorityMismatch"
    ELSE IF ~(event[event_id].start_date > now) THEN "EventAlreadyStarted"
    ELSE Ok

\* UpdateEvent::update_event_name
update_event_name(event_id, name) ==
    Outcome(Ok, FALSE, "none", user, event,
            [event_meta EXCEPT ![event_id].name = name], lamports)

\* UpdateEvent::update_event_description
update_event_description(event_id, description) ==
    Outcome(Ok, FALSE, "none", user, event,
            [event_meta EXCEPT ![event_id].description = description], lamports)

\* variant: the new date is written to start_date
update_event_end_date_writes_start(event_id, end_date) ==
    LET e == event[event_id]
    IN  IF ~(e.start_date < end_date) THEN Reject("InvalidEndDate")
        ELSE IF /\ IsSome(e.participation_deadline)
                /\ ~(e.participation_deadline[1] <= end_date)
             THEN Reject("InvalidEndDate")
        ELSE Outcome(Ok, FALSE, "none", user,
                     [event EXCEPT ![event_id].start_date = end_date],
                     event_meta, lamports)

\* variant: the existing deadline is not compared with the new end date
update_event_end_date_no_deadline_check(event_id, end_date) ==
    LET e == event[event_id]
    IN  IF ~(e.start_date < end_date) THEN Reject("InvalidEndDate")
        ELSE Outcome(Ok, FALSE, "none", user,
                     [event EXCEPT ![event_id].end_date = end_date],
                     event_meta, lamports)

\* UpdateEvent::update_event_end_date
update_event_end_date(event_id, end_date) ==
    LET e == event[event_id]
    IN  IF ~(e.start_date < end_date) THEN Reject("InvalidEndDate")
        ELSE IF /\ IsSome(e.participation_deadline)
                /\ ~(e.participation_deadline[1] <= end_date)
             THEN Reject("InvalidEndDate")
        ELSE Outcome(Ok, FALSE, "none", user,
                     [event EXCEPT ![event_id].end_date = end_date],
                     event_meta, lamports)

\* UpdateEvent::update_event_participation_deadline
update_event_participation_deadline(event_id, participation_deadline) ==
    LET e == event[event_id]
    IN  IF /\ IsSome(participation_deadline)
           /\ ~RangeContains(e.start_date, e.end_date, participation_deadline[1])
        THEN Reject("InvalidEndDate")
        ELSE Outcome(Ok, FALSE, "none", user,
                     [event EXCEPT ![event_id].participation_deadline =
                                        participation_deadline],
                     event_meta, lamports)

----------------------------------------------------------------------------
(* CancelEvent *)

\* #[derive(Accounts)] CancelEvent: the event must exist and contract_admin
\* must be the authority recorded in the State account
CancelEventAccounts(sender, contract_admin, event_id) ==
    IF event_id \notin DOMAIN event THEN "AccountNotInitialized"
    ELSE IF ~(state.authority = contract_admin) THEN "AuthorityMismatch"
    ELSE Ok

\* variant: the grace deadline compared with >=
CancelAuthorityCheck_ge(e, sender, t) ==
    e.authority = sender \/ t >= e.end_date + COMPLETION_DEADLINE

\* variant: the comparison with the grace deadline turned round
CancelAuthorityCheck_le(e, sender, t) ==
    e.authority = sender \/ t <= e.end_date + COMPLETION_DEADLINE

\* the require! at the head of CancelEvent::cancel_event
CancelAuthorityCheck(e, sender, t) ==
    e.authority = sender \/ t > e.end_date + COMPLETION_DEADLINE

\* variants of cancel_event: "refund_always" credits stake in both branches,
\* "strict_start" takes the forfeiture branch only when start_date < now,
\* "ignore_transfer" drops the error of withdraw_sol, "sender_ledger" takes
\* the user account of the sender, "skip_transfer" leaves withdraw_sol out
cancel_event_variant(sender, contract_admin, event_id, overflow_checks, variant) ==
    LET e == event[event_id]
        owner == IF variant = "sender_ledger" THEN sender ELSE e.authority
        u == user[owner]
        started == IF variant = "strict_start" THEN e.start_date < now
                   ELSE e.start_date <= now
        l1 == sub_u64(u.locked_stake, e.stake, overflow_checks)
        u1 == IF started /\ variant # "refund_always"
              THEN [u EXCEPT !.locked_stake = l1.v]
              ELSE [u EXCEPT !.locked_stake = l1.v, !.stake = @ + e.stake]
        user1 == [user EXCEPT ![owner] = u1]
        dst == IF started THEN WalletAcc(contract_admin) ELSE UserAcc(owner)
        w == IF variant = "skip_transfer"
             THEN [err |-> Ok, lamports |-> lamports]
             ELSE withdraw_sol(lamports, EventAcc(event_id), dst, e.stake)
        event1 == [event EXCEPT ![event_id].canceled = TRUE]
    IN  IF ~CancelAuthorityCheck(e, sender, now) THEN Reject("AuthorityMismatch")
        ELSE IF l1.panic
             THEN Outcome("Panic", TRUE, "none", user, event, event_meta, lamports)
        ELSE IF w.err # Ok /\ variant = "ignore_transfer"
             THEN Outcome(Ok, l1.uflow, "failed", user1, event1, event_meta, lamports)
        ELSE IF w.err # Ok
             THEN Outcome(w.err, l1.uflow, "failed", user1, event, event_meta, lamports)
        ELSE Outcome(Ok, l1.uflow, "ok", user1, event1, event_meta, w.lamports)

cancel_event_refund_always(sender, contract_admin, event_id, overflow_checks) ==
    cancel_event_variant(sender, contract_admin, event_id, overflow_checks,
                         "refund_always")

cancel_event_strict_start(sender, contract_admin, event_id, overflow_checks) ==
    cancel_event_variant(sender, contract_admin, event_id, overflow_checks,
                         "strict_start")

cancel_event_ignore_transfer(sender, contract_admin, event_id, overflow_checks) ==
    cancel_event_variant(sender, contract_admin, event_id, overflow_checks,
                         "ignore_transfer")

cancel_event_sender_ledger(sender, contract_admin, event_id, overflow_checks) ==
    cancel_event_variant(sender, contract_admin, event_id, overflow_checks,
                         "sender_ledger")

cancel_event_skip_transfer(sender, contract_admin, event_id, overflow_checks) ==
    cancel_event_variant(sender, contract_admin, event_id, overflow_checks,
                         "skip_transfer")

\* CancelEvent::cancel_event; the user account is the one derived from
\* event.authority
cancel_event(sender, contract_admin, event_id, overflow_checks) ==
    LET e == event[event_id]
        owner == e.authority
        u == user[owner]
        started == e.start_date <= now
        l1 == sub_u64(u.locked_stake, e.stake, overflow_checks)
        u1 == IF started
              THEN [u EXCEPT !.locked_stake = l1.v]
              ELSE [u EXCEPT !.locked_stake = l1.v, !.stake = @ + e.stake]
        user1 == [user EXCEPT ![owner] = u1]
        dst == IF started THEN WalletAcc(contract_admin) ELSE UserAcc(owner)
        w == withdraw_sol(lamports, EventAcc(event_id), dst, e.stake)
        event1 == [event EXCEPT ![event_id].canceled = TRUE]
    IN  IF ~CancelAuthorityCheck(e, sender, now) THEN Reject("AuthorityMismatch")
        ELSE IF l1.panic
             THEN Outcome("Panic", TRUE, "none", user, event, event_meta, lamports)
        ELSE IF w.err # Ok
             THEN Outcome(w.err, l1.uflow, "failed", user1, event, event_meta, lamports)
        ELSE Outcome(Ok, l1.uflow, "ok", user1, event1, event_meta, w.lamports)

----------------------------------------------------------------------------
(* CompleteEvent *)

\* variant: the end date compared with <=
CompleteEventAccounts_le(authority, event_id) ==
    IF event_id \notin DOMAIN event THEN "AccountNotInitialized"
    ELSE IF ~(event[event_id].authority = authority) THEN "AuthorityMismatch"
    ELSE IF ~(event[event_id].end_date <= now) THEN "EventIsNotOver"
    ELSE Ok

\* variant: a further constraint turns away a cancelled event
CompleteEventAccounts_not_canceled(authority, event_id) ==
    IF event_id \notin DOMAIN event THEN "AccountNotInitialized"
    ELSE IF ~(event[event_id].authority = authority) THEN "AuthorityMismatch"
    ELSE IF ~(event[event_id].end_date < now) THEN "EventIsNotOver"
    ELSE IF event[event_id].canceled THEN "EventCanceled"
    ELSE Ok

\* #[derive(Accounts)] CompleteEvent: the constraints on the event account
CompleteEventAccounts(authority, event_id) ==
    IF event_id \notin DOMAIN event THEN "AccountNotInitialized"
    ELSE IF ~(event[event_id].authority = authority) THEN "AuthorityMismatch"
    ELSE IF ~(event[event_id].end_date < now) THEN "EventIsNotOver"
    ELSE Ok

\* variant: completion also hands the stake back to the creator
complete_event_release(event_id, result) ==
    LET e == event[event_id]
        o == e.authority
        w == withdraw_sol(lamports, EventAcc(event_id), UserAcc(o), e.stake)
    IN  Outcome(w.err, FALSE, "ok",
                [user EXCEPT ![o].locked_stake = @ - e.stake,
                             ![o].stake = @ + e.stake],
                [event EXCEPT ![event_id].result = Some(result)],
                event_meta, w.lamports)

\* CompleteEvent::complete_event
complete_event(event_id, result) ==
    Outcome(Ok, FALSE, "none", user,
            [event EXCEPT ![event_id].result = Some(result)],
            event_meta, lamports)

----------------------------------------------------------------------------
(* The instructions as transitions *)

\* the accounts an instruction can write
Accounts ==
    [user |-> user, event |-> event, event_meta |-> event_meta,
     lamports |-> lamports]

\* an instruction is applied whole or not at all: what the handler wrote is
\* kept when it returns Ok, and discarded when it (or the validation of its
\* accounts) returns an error
Effect(out) ==
    IF out.err = Ok
    THEN [user |-> out.user, event |-> out.event,
          event_meta |-> out.event_meta, lamports |-> out.lamports]
    ELSE Accounts

\* a processed instruction that leaves every account as it was is a
\* stuttering step
Commit(out) ==
    LET a == Effect(out)
    IN  /\ a # Accounts
        /\ user' = a.user
        /\ event' = a.event
        /\ event_meta' = a.event_meta
        /\ lamports' = a.lamports
        /\ UNCHANGED <<now, state>>

Init ==
    /\ now = 0
    /\ state \in [authority : {Admin}, event_price : 1..MaxPrice]
    /\ user \in [Principals -> [stake : 0..MaxStake, locked_stake : {0}]]
    /\ event = <<>>
    /\ event_meta = <<>>
    /\ lamports = [user |-> [p \in Principals |-> user[p].stake],
                   event |-> [id \in EventIds |-> 0],
                   wallet |-> [w \in Wallets |-> 0]]

\* the clock advances
Tick ==
    /\ now < MaxTime
    /\ now' = now + 1
    /\ UNCHANGED <<state, user, event, event_meta, lamports>>

\* the instructions: validation of the accounts, then the handler
CreateEventIx(authority, event_id, args, overflow_checks) ==
    LET a == CreateEventAccounts(authority, event_id)
    IN  IF a # Ok THEN Reject(a)
        ELSE create_event(authority, event_id, args, overflow_checks)

UpdateEventNameIx(authority, event_id, name) ==
    LET a == UpdateEventAccounts(authority, event_id)
    IN  IF a # Ok THEN Reject(a) ELSE update_event_name(event_id, name)

UpdateEventDescriptionIx(authority, event_id, description) ==
    LET a == UpdateEventAccounts(authority, event_id)
    IN  IF a # Ok THEN Reject(a)
        ELSE update_event_description(event_id, description)

UpdateEventEndDateIx(authority, event_id, end_date) ==
    LET a == UpdateEventAccounts(authority, event_id)
    IN  IF a # Ok THEN Reject(a) ELSE update_event_end_date(event_id, end_date)

UpdateEventParticipationDeadlineIx(authority, event_id, participation_deadline) ==
    LET a == UpdateEventAccounts(authority, event_id)
    IN  IF a # Ok THEN Reject(a)
        ELSE update_event_participation_deadline(event_id, participation_deadline)

CancelEventIx(sender, contract_admin, event_id, overflow_checks) ==
    LET a == CancelEventAccounts(sender, contract_admin, event_id)
    IN  IF a # Ok THEN Reject(a)
        ELSE cancel_event(sender, contract_admin, event_id, overflow_checks)

CompleteEventIx(authority, event_id, result) ==
    LET a == CompleteEventAccounts(authority, event_id)
    IN  IF a # Ok THEN Reject(a) ELSE complete_event(event_id, result)

\* The actions take the sets their inputs are drawn from.  A processed
\* instruction that fails changes nothing, so only the inputs that pass the
\* validation of the accounts (and, for CreateEvent, the validation of the
\* identifier and of the arguments) are carried on to the handler.
CreateEvent(ids, argset) ==
    \E authority \in Principals, event_id \in ids :
        /\ CreateEventAccounts(authority, event_id) = Ok
        /\ get_version_num(event_id) = UUID_VERSION
        /\ \E args \in argset :
               /\ validate(event_id, args) = Ok
               /\ \E oc \in BOOLEAN :
                      Commit(CreateEventIx(authority, event_id, args, oc))

UpdateEventName(ids) ==
    \E authority \in Principals, event_id \in ids :
        /\ UpdateEventAccounts(authority, event_id) = Ok
        /\ \E name \in Names :
               Commit(UpdateEventNameIx(authority, event_id, name))

UpdateEventDescription(ids) ==
    \E authority \in Principals, event_id \in ids :
        /\ UpdateEventAccounts(authority, event_id) = Ok
        /\ \E d \in Descriptions :
               Commit(UpdateEventDescriptionIx(authority, event_id, d))

UpdateEventEndDate(ids) ==
    \E authority \in Principals, event_id \in ids :
        /\ UpdateEventAccounts(authority, event_id) = Ok
        /\ \E end_date \in Dates :
               Commit(UpdateEventEndDateIx(authority, event_id, end_date))

UpdateEventParticipationDeadline(ids) ==
    \E authority \in Principals, event_id \in ids :
        /\ UpdateEventAccounts(authority, event_id) = Ok
        /\ \E pd \in OptDates :
               Commit(UpdateEventParticipationDeadlineIx(authority, event_id, pd))

CancelEvent(ids) ==
    \E sender \in Principals, contract_admin \in Wallets, event_id \in ids :
        /\ CancelEventAccounts(sender, contract_admin, event_id) = Ok
        /\ \E oc \in BOOLEAN :
               Commit(CancelEventIx(sender, contract_admin, event_id, oc))

CompleteEvent(ids, results) ==
    \E authority \in Principals, event_id \in ids :
        /\ CompleteEventAccounts(authority, event_id) = Ok
        /\ \E result \in results :
               Commit(CompleteEventIx(authority, event_id, result))

\* one event through its whole lifecycle, every argument drawn freely
Next ==
    \/ Tick
    \/ CreateEvent(OneEventIds, CreateEventArgs)
    \/ UpdateEventName(OneEventIds)
    \/ UpdateEventDescription(OneEventIds)
    \/ UpdateEventEndDate(OneEventIds)
    \/ UpdateEventParticipationDeadline(OneEventIds)
    \/ CancelEvent(OneEventIds)
    \/ CompleteEvent(OneEventIds, Results)

Spec == Init /\ [][Next]_vars

\* several events side by side, each created on the fixed schedule; only
\* the end date is edited and one result code is submitted
NextLedger ==
    \/ Tick
    \/ CreateEvent(EventIds, FixedArgs)
    \/ UpdateEventEndDate(EventIds)
    \/ CancelEvent(EventIds)
    \/ CompleteEvent(EventIds, {0})

SpecLedger == Init /\ [][NextLedger]_vars

----------------------------------------------------------------------------
(* Quantities the properties speak of *)

RECURSIVE SumFn(_)
SumFn(f) ==
    IF DOMAIN f = {} THEN 0
    ELSE LET x == CHOOSE y \in DOMAIN f : TRUE
         IN  f[x] + SumFn([y \in DOMAIN f \ {x} |-> f[y]])

VaultTotal == SumFn(lamports.event)
StakeTotal == SumFn([p \in Principals |-> user[p].stake])
LockedTotal == SumFn([p \in Principals |-> user[p].locked_stake])
AdminBalance == lamports.wallet[state.authority]

\* identifiers whose version field is the required one
ValidIds == {id \in EventIds : get_version_num(id) = UUID_VERSION}
\* those of them that Spec creates events under
OneValidIds == ValidIds \cap OneEventIds

----------------------------------------------------------------------------
(* C1 *)

\* C1 as stated: sum(vault balances) + sum(stake) + sum(locked_stake) has the
\* same value after each operation as before it.
C1_SumWithLockedUnchanged ==
    [][VaultTotal' + StakeTotal' + LockedTotal'
         = VaultTotal + StakeTotal + LockedTotal]_vars

\* C1 as amended: sum(vault balances) + sum(stake) + the admin's balance has the
\* same value after each operation as before it; locked_stake mirrors what
\* the vaults hold and is not a further holding of funds.
C1_FundConservation ==
    [][VaultTotal' + StakeTotal' + AdminBalance'
         = VaultTotal + StakeTotal + AdminBalance]_vars

\* an event was created, started and cancelled: its stake is with the admin
C1_Witness ==
    \E id \in DOMAIN event :
        /\ event[id].canceled
        /\ lamports.event[id] = 0
        /\ AdminBalance = event[id].stake
        /\ user[event[id].authority].locked_stake = 0

----------------------------------------------------------------------------
(* C2 *)

\* arguments with every well-formed schedule over Dates
ScheduleArgs ==
    [name : {"n2"}, is_private : {TRUE}, description : {"d1"},
     start_date : Dates, end_date : Dates, participation_deadline : OptDates]

WellFormedDates(args) ==
    /\ args.start_date < args.end_date
    /\ \/ args.participation_deadline = None
       \/ /\ args.start_date <= args.participation_deadline[1]
          /\ args.participation_deadline[1] <= args.end_date

WellFormedArgs == {args \in ScheduleArgs : WellFormedDates(args)}

\* C2: CreateEvent with an unused identifier of the required version and
\* well-formed dates succeeds exactly when the caller's stake >= event_price
\* (equality succeeds); then stake decreases and locked_stake increases by
\* exactly event_price, the new event's stake is event_price, its authority the
\* caller, canceled FALSE and result None; otherwise it fails with StakeTooLow.
C2_CreateEvent ==
    \A event_id \in ValidIds \ DOMAIN event :
      \A authority \in Principals, args \in WellFormedArgs, oc \in BOOLEAN :
        LET out == CreateEventIx(authority, event_id, args, oc)
            post == Effect(out)
            price == state.event_price
        IN  IF user[authority].stake >= price
            THEN /\ out.err = Ok
                 /\ post.user[authority].stake = user[authority].stake - price
                 /\ post.user[authority].locked_stake
                      = user[authority].locked_stake + price
                 /\ post.event[event_id].stake = price
                 /\ post.event[event_id].authority = authority
                 /\ post.event[event_id].canceled = FALSE
                 /\ post.event[event_id].result = None
            ELSE out.err = "StakeTooLow"

\* an event created by a user whose stake was exactly event_price
C2_Witness ==
    \E id \in DOMAIN event :
        LET a == event[id].authority
        IN  /\ user[a].stake = 0
            /\ user[a].locked_stake = state.event_price
            /\ event[id].stake = state.event_price
            /\ lamports.event[id] = state.event_price
            /\ ~event[id].canceled
            /\ event[id].result = None

----------------------------------------------------------------------------
(* C3 *)

\* C3: a successful CancelEvent sets canceled and takes the event's stake off
\* the creator's locked_stake; at now < start_date it adds the stake to the
\* creator's stake and moves it from the vault to the creator's user account;
\* at now >= start_date it leaves the creator's stake alone and moves the
\* amount from the vault to the admin recorded in the State account.
C3_CancelRouting ==
    \A id \in DOMAIN event :
      \A sender \in Principals, contract_admin \in Wallets, oc \in BOOLEAN :
        LET e == event[id]
            o == e.authority
            out == CancelEventIx(sender, contract_admin, id, oc)
            post == Effect(out)
        IN  out.err = Ok =>
              /\ post.event[id].canceled = TRUE
              /\ post.user[o].locked_stake = user[o].locked_stake - e.stake
              /\ \A p \in Principals \ {o} : post.user[p] = user[p]
              /\ IF now < e.start_date
                 THEN /\ post.user[o].stake = user[o].stake + e.stake
                      /\ post.lamports =
                           [lamports EXCEPT !.event[id] = @ - e.stake,
                                            !.user[o] = @ + e.stake]
                 ELSE /\ post.user[o].stake = user[o].stake
                      /\ post.lamports =
                           [lamports EXCEPT !.event[id] = @ - e.stake,
                                            !.wallet[state.authority] = @ + e.stake]

\* two events of one user, both cancelled: one refunded to the user, one
\* forfeited to the admin
C3_Witness ==
    \E p \in Principals, id1, id2 \in DOMAIN event :
        /\ id1 # id2
        /\ DOMAIN event = {id1, id2}
        /\ event[id1].authority = p /\ event[id2].authority = p
        /\ event[id1].canceled /\ event[id2].canceled
        /\ lamports.event[id1] = 0 /\ lamports.event[id2] = 0
        /\ AdminBalance = state.event_price
        /\ user[p].locked_stake = 0
        /\ user[p].stake >= state.event_price
        /\ lamports.user[p] = user[p].stake

----------------------------------------------------------------------------
(* C4 *)

\* C4: CancelEvent by a caller who is not the creator fails with
\* AuthorityMismatch whenever now <= end_date + COMPLETION_DEADLINE and passes
\* the authority check whenever now > end_date + COMPLETION_DEADLINE; by the
\* creator it passes the authority check at every time.
C4_CancelAuthority ==
    \A id \in DOMAIN event :
      \A sender \in Principals, oc \in BOOLEAN :
        LET e == event[id]
            out == CancelEventIx(sender, state.authority, id, oc)
        IN  IF sender # e.authority /\ now <= e.end_date + COMPLETION_DEADLINE
            THEN /\ ~CancelAuthorityCheck(e, sender, now)
                 /\ out.err = "AuthorityMismatch"
            ELSE /\ CancelAuthorityCheck(e, sender, now)
                 /\ out.err # "AuthorityMismatch"

\* one unit past the grace deadline a caller who is not the creator cancels
\* an event, and its stake goes to the admin
C4_Witness ==
    \E id \in DOMAIN event, sender \in Principals :
        /\ sender # event[id].authority
        /\ now = event[id].end_date + COMPLETION_DEADLINE + 1
        /\ ~event[id].canceled
        /\ CancelEventIx(sender, state.authority, id, TRUE).err = Ok
        /\ Effect(CancelEventIx(sender, state.authority, id, TRUE)).event[id].canceled

----------------------------------------------------------------------------
(* C5 *)

\* C5: each of the four UpdateEvent instructions fails with AuthorityMismatch
\* when the caller is not the event's authority, and for the authority fails
\* with EventAlreadyStarted when now >= start_date; for the authority at
\* now < start_date (so at start_date - 1) the gate passes: the name and the
\* description updates succeed, the two date updates can fail only on a date
\* bound.
C5_UpdateGating ==
    \A id \in DOMAIN event :
      \A authority \in Principals :
        LET e == event[id]
            nameErrs == {UpdateEventNameIx(authority, id, n).err : n \in Names}
            descErrs == {UpdateEventDescriptionIx(authority, id, d).err :
                            d \in Descriptions}
            endErrs == {UpdateEventEndDateIx(authority, id, d).err : d \in Dates}
            pdErrs == {UpdateEventParticipationDeadlineIx(authority, id, o).err :
                          o \in OptDates}
            all == nameErrs \cup descErrs \cup endErrs \cup pdErrs
        IN  IF authority # e.authority THEN all = {"AuthorityMismatch"}
            ELSE IF now >= e.start_date THEN all = {"EventAlreadyStarted"}
            ELSE /\ nameErrs = {Ok}
                 /\ descErrs = {Ok}
                 /\ endErrs \subseteq {Ok, "InvalidEndDate"}
                 /\ pdErrs \subseteq {Ok, "InvalidEndDate"}

\* the creator renames the event one unit before its start
C5_Witness ==
    \E id \in DOMAIN event, n \in Names :
        /\ now = event[id].start_date - 1
        /\ n # event_meta[id].name
        /\ UpdateEventNameIx(event[id].authority, id, n).err = Ok
        /\ Effect(UpdateEventNameIx(event[id].authority, id, n)).event_meta[id].name = n

----------------------------------------------------------------------------
(* C6 *)

\* C6: CompleteEvent fails with AuthorityMismatch when the caller is not the
\* event's authority; for the authority it fails with EventIsNotOver whenever
\* now <= end_date and succeeds at every now > end_date, leaving
\* result = Some(r) for exactly the submitted code r.
C6_CompleteGating ==
    \A id \in DOMAIN event :
      \A authority \in Principals, r \in Results :
        LET e == event[id]
            out == CompleteEventIx(authority, id, r)
        IN  IF authority # e.authority THEN out.err = "AuthorityMismatch"
            ELSE IF now <= e.end_date THEN out.err = "EventIsNotOver"
            ELSE /\ out.err = Ok
                 /\ Effect(out).event[id].result = Some(r)

\* an event completed with code 1 one unit after its end date
C6_Witness ==
    \E id \in DOMAIN event :
        /\ now = event[id].end_date + 1
        /\ event[id].result = Some(1)
        /\ CompleteEventIx(event[id].authority, id, 0).err = Ok

----------------------------------------------------------------------------
(* C7 *)

\* deadlines tried against the bounds: one unit outside Dates on either side
ProbeDates == 0..(MaxDate + 1)

ProbeArgs(start, end, pd) ==
    [name |-> "n1", is_private |-> FALSE, description |-> "d2",
     start_date |-> start, end_date |-> end, participation_deadline |-> pd]

\* C7, CreateEvent: InvalidEndDate when start_date >= end_date; with
\* start_date < end_date a deadline in [start_date, end_date] (the two ends
\* included) or None passes the date checks and a deadline outside (so
\* start_date - 1 and end_date + 1) gives InvalidEndDate.
C7_CreateDates ==
    \A event_id \in OneValidIds \ DOMAIN event :
      \A authority \in Principals, start \in Dates, end \in Dates, oc \in BOOLEAN :
        /\ LET out == CreateEventIx(authority, event_id,
                                    ProbeArgs(start, end, None), oc)
           IN  IF start >= end THEN out.err = "InvalidEndDate"
               ELSE out.err \in {Ok, "StakeTooLow"}
        /\ \A d \in ProbeDates :
             LET out == CreateEventIx(authority, event_id,
                                      ProbeArgs(start, end, Some(d)), oc)
             IN  IF start >= end \/ d < start \/ d > end
                 THEN out.err = "InvalidEndDate"
                 ELSE out.err \in {Ok, "StakeTooLow"}

\* C7, UpdateEventEndDate, past the gate: InvalidEndDate when start_date >= the
\* new end date or an existing deadline is greater than it; otherwise the end
\* date is replaced.
C7_UpdateEndDate ==
    \A id \in DOMAIN event :
      UpdateEventAccounts(event[id].authority, id) = Ok =>
        \A new \in ProbeDates :
          LET e == event[id]
              out == UpdateEventEndDateIx(e.authority, id, new)
          IN  IF \/ e.start_date >= new
                 \/ (e.participation_deadline # None
                       /\ e.participation_deadline[1] > new)
              THEN out.err = "InvalidEndDate"
              ELSE out.err = Ok /\ Effect(out).event[id].end_date = new

\* C7, UpdateEventParticipationDeadline, past the gate: a deadline in
\* [start_date, end_date] (the two ends included) or None is stored, a deadline
\* outside (so start_date - 1 and end_date + 1) gives InvalidEndDate.
C7_UpdateDeadline ==
    \A id \in DOMAIN event :
      UpdateEventAccounts(event[id].authority, id) = Ok =>
        LET e == event[id]
            none == UpdateEventParticipationDeadlineIx(e.authority, id, None)
        IN  /\ none.err = Ok
            /\ Effect(none).event[id].participation_deadline = None
            /\ \A d \in ProbeDates :
                 LET out == UpdateEventParticipationDeadlineIx(e.authority, id,
                                                               Some(d))
                 IN  IF d < e.start_date \/ d > e.end_date
                     THEN out.err = "InvalidEndDate"
                     ELSE /\ out.err = Ok
                          /\ Effect(out).event[id].participation_deadline = Some(d)

\* C7: the date bound checks of CreateEvent, UpdateEventEndDate and
\* UpdateEventParticipationDeadline.
C7_DateBounds == C7_CreateDates /\ C7_UpdateEndDate /\ C7_UpdateDeadline

\* before its start an event carries a deadline equal to its end date; one
\* unit more is refused, and so is an end date equal to the start date
C7_Witness ==
    \E id \in DOMAIN event :
        LET e == event[id]
        IN  /\ now < e.start_date
            /\ e.participation_deadline = Some(e.end_date)
            /\ UpdateEventParticipationDeadlineIx(e.authority, id,
                   Some(e.end_date + 1)).err = "InvalidEndDate"
            /\ UpdateEventParticipationDeadlineIx(e.authority, id,
                   Some(e.start_date)).err = Ok
            /\ UpdateEventEndDateIx(e.authority, id, e.start_date).err
                   = "InvalidEndDate"

----------------------------------------------------------------------------
(* C8 *)

\* an instruction failed: it returned an error, or its transfer did not go
\* through
Failed(out) == out.err # Ok \/ out.xfer = "failed"

\* the fixed schedule, an end date not after the start date, and a deadline
\* after the end date
CornerArgs ==
    FixedArgs \cup {ProbeArgs(2, 2, None), ProbeArgs(1, 2, Some(3))}

\* the outcomes of every instruction on its inputs
AllOutcomes ==
    {CreateEventIx(a, id, args, oc) :
        a \in Principals, id \in EventIds, args \in CornerArgs, oc \in BOOLEAN}
    \cup {UpdateEventNameIx(a, id, n) :
        a \in Principals, id \in EventIds, n \in Names}
    \cup {UpdateEventDescriptionIx(a, id, d) :
        a \in Principals, id \in EventIds, d \in Descriptions}
    \cup {UpdateEventEndDateIx(a, id, d) :
        a \in Principals, id \in EventIds, d \in ProbeDates}
    \cup {UpdateEventParticipationDeadlineIx(a, id, o) :
        a \in Principals, id \in EventIds, o \in OptDates}
    \cup {CancelEventIx(a, w, id, oc) :
        a \in Principals, w \in Wallets, id \in EventIds, oc \in BOOLEAN}
    \cup {CompleteEventIx(a, id, r) :
        a \in Principals, id \in EventIds, r \in Results}

\* C8: whenever an instruction fails (a validation, an authority or time gate,
\* or a transfer failing after the handler already changed the ledger), every
\* User, Event, EventMeta and balance is what it was before the instruction.
C8_AllOrNothing ==
    \A out \in AllOutcomes : Failed(out) => Effect(out) = Accounts

\* a second CancelEvent on a cancelled event, while the creator's other event
\* keeps locked_stake high enough: the handler has taken the stake off
\* locked_stake when the transfer from the empty vault fails
C8_Witness ==
    \E id \in DOMAIN event, oc \in BOOLEAN :
        LET out == CancelEventIx(event[id].authority, state.authority, id, oc)
        IN  /\ event[id].canceled
            /\ out.xfer = "failed"
            /\ ~out.uflow
            /\ out.user # user
            /\ out.err = "InsufficientFunds"
            /\ Effect(out) = Accounts

----------------------------------------------------------------------------
(* C9 *)

\* sum of the stakes of the events in ids
StakeOf(ids) == SumFn([id \in ids |-> event[id].stake])

\* C9 as stated: each user's locked_stake is the sum of the stakes of that
\* user's events that are neither cancelled nor completed.
C9_LockedIsNonTerminalStake ==
    \A p \in Principals :
        user[p].locked_stake =
            StakeOf({id \in DOMAIN event : /\ event[id].authority = p
                                           /\ ~event[id].canceled
                                           /\ event[id].result = None})

\* C9 as amended: each user's locked_stake is the sum of the stakes of that
\* user's events that are not cancelled, completed or not.
C9_LockedIsUncancelledStake ==
    \A p \in Principals :
        user[p].locked_stake =
            StakeOf({id \in DOMAIN event : /\ event[id].authority = p
                                           /\ ~event[id].canceled})

\* a user with one event completed and one cancelled: the completed event's
\* stake is still locked
C9_Witness ==
    \E p \in Principals, id1, id2 \in DOMAIN event :
        /\ id1 # id2
        /\ event[id1].authority = p /\ event[id2].authority = p
        /\ event[id1].result # None /\ ~event[id1].canceled
        /\ event[id2].canceled
        /\ user[p].locked_stake = event[id1].stake
        /\ lamports.event[id1] = event[id1].stake

----------------------------------------------------------------------------
(* C10 *)

\* no more than every deposit of the initial state can be on one ledger
FundsCap == Cardinality(Principals) * MaxStake

\* C10: stake and locked_stake of every user stay within 0..FundsCap (never
\* negative, never a wrapped value), and no instruction that succeeds has
\* subtracted more than the field held.
C10_NoUnderflow ==
    /\ \A p \in Principals :
         /\ user[p].stake \in 0..FundsCap
         /\ user[p].locked_stake \in 0..FundsCap
    /\ \A id \in DOMAIN event :
         \A sender \in Principals, oc \in BOOLEAN :
           LET out == CancelEventIx(sender, state.authority, id, oc)
           IN  out.err = Ok => ~out.uflow
    /\ \A id \in OneValidIds \ DOMAIN event :
         \A a \in Principals, args \in WellFormedArgs, oc \in BOOLEAN :
           LET out == CreateEventIx(a, id, args, oc)
           IN  out.err = Ok => ~out.uflow

\* an event completed and then cancelled: cancelling it again would take its
\* stake off a locked_stake of 0, and fails under either build
C10_Witness ==
    \E id \in DOMAIN event :
        LET o == event[id].authority
        IN  /\ event[id].canceled
            /\ event[id].result # None
            /\ user[o].locked_stake = 0
            /\ CancelEventIx(o, state.authority, id, FALSE).uflow
            /\ CancelEventIx(o, state.authority, id, FALSE).err = "InsufficientFunds"
            /\ CancelEventIx(o, state.authority, id, TRUE).err = "Panic"

----------------------------------------------------------------------------
(* C11 *)

\* no CancelEvent, by any sender and with any admin account passed, succeeds
\* on an event that is cancelled already
NoSecondCancel ==
    \A id \in DOMAIN event :
        event[id].canceled =>
            \A sender \in Principals, contract_admin \in Wallets, oc \in BOOLEAN :
                CancelEventIx(sender, contract_admin, id, oc).err # Ok

\* a cancelled event stays cancelled
CanceledStays ==
    \A id \in DOMAIN event :
        event[id].canceled => id \in DOMAIN event' /\ event'[id].canceled

----------------------------------------------------------------------------
(* C12 *)

\* C12 as stated: once an event's result is Some(r) it is Some(r) in every
\* later state; no later operation, another CompleteEvent with a different
\* code included, changes it.
C12_ResultSetOnce ==
    [][\A id \in DOMAIN event :
          event[id].result # None =>
              id \in DOMAIN event' /\ event'[id].result = event[id].result]_vars

----------------------------------------------------------------------------
(* C13 *)

\* C13: neither terminal flag gates an instruction.  Whatever canceled and
\* result are, CompleteEvent succeeds exactly when the caller is the authority
\* and now > end_date (so also on a cancelled event), CancelEvent passes its
\* authority check exactly when the caller is the authority or
\* now > end_date + COMPLETION_DEADLINE (so also on a completed event), and on
\* an event not yet cancelled such a CancelEvent succeeds whether or not a
\* result is recorded.
C13_TerminalFlagsGateNothing ==
    \A id \in DOMAIN event :
        LET e == event[id]
        IN  /\ \A a \in Principals, r \in Results :
                 (CompleteEventIx(a, id, r).err = Ok)
                     <=> (a = e.authority /\ now > e.end_date)
            /\ \A sender \in Principals, oc \in BOOLEAN :
                 LET out == CancelEventIx(sender, state.authority, id, oc)
                     may == \/ sender = e.authority
                            \/ now > e.end_date + COMPLETION_DEADLINE
                 IN  /\ (out.err # "AuthorityMismatch") <=> may
                     /\ (may /\ ~e.canceled) => out.err = Ok

\* an event both cancelled and completed, on which CompleteEvent with another
\* code still succeeds
C13_Witness ==
    \E id \in DOMAIN event :
        /\ event[id].canceled
        /\ event[id].result = Some(0)
        /\ CompleteEventIx(event[id].authority, id, 1).err = Ok
        /\ Effect(CompleteEventIx(event[id].authority, id, 1)).event[id].canceled

----------------------------------------------------------------------------
(* C14 *)

\* C14: a successful CompleteEvent changes Event.result of its event and
\* nothing else: every user's stake and locked_stake, every balance (vaults,
\* user accounts, the admin's wallet), the event's dates, stake, authority and
\* canceled flag, every other event and every EventMeta are as before.
C14_CompleteMovesNoFunds ==
    \A id \in DOMAIN event :
      \A a \in Principals, r \in Results :
        LET out == CompleteEventIx(a, id, r)
            post == Effect(out)
        IN  out.err = Ok =>
              /\ post.user = user
              /\ post.lamports = lamports
              /\ post.event_meta = event_meta
              /\ post.event = [event EXCEPT ![id].result = Some(r)]

\* a completed event that was never cancelled: its stake is still in its
\* vault and still counted in its creator's locked_stake
C14_Witness ==
    \E id \in DOMAIN event :
        LET o == event[id].authority
        IN  /\ event[id].result # None
            /\ ~event[id].canceled
            /\ lamports.event[id] = event[id].stake
            /\ user[o].locked_stake >= event[id].stake
            /\ AdminBalance = 0

----------------------------------------------------------------------------
(* C15 *)

\* the events this step creates for p
CreatedBy(p) ==
    {id \in DOMAIN event' \ DOMAIN event : event'[id].authority = p}

----------------------------------------------------------------------------
(* C16 *)

\* C16: no step (an UpdateEvent instruction, CancelEvent, CompleteEvent, or a
\* CreateEvent of another event) changes the stake, authority, id or
\* start_date of an event that exists, and no event goes away.
C16_CreationFieldsImmutable ==
    [][\A id \in DOMAIN event :
          /\ id \in DOMAIN event'
          /\ event'[id].stake = event[id].stake
          /\ event'[id].authority = event[id].authority
          /\ event'[id].id = event[id].id
          /\ event'[id].start_date = event[id].start_date]_vars

\* an event that went through CompleteEvent and CancelEvent and still
\* carries the identifier and the stake it was created with
C16_Witness ==
    \E id \in DOMAIN event :
        /\ event[id].canceled
        /\ event[id].result # None
        /\ event[id].participation_deadline # None
        /\ event[id].id = id
        /\ event[id].stake = state.event_price
        /\ event[id].start_date < event[id].end_date

----------------------------------------------------------------------------
(* C17 *)

\* C17: in every reachable state every event has start_date < end_date and,
\* when its participation_deadline is Some(d), start_date <= d <= end_date.
C17_DatesWellFormed ==
    \A id \in DOMAIN event :
        LET e == event[id]
        IN  /\ e.start_date < e.end_date
            /\ IsSome(e.participation_deadline) =>
                  /\ e.start_date <= e.participation_deadline[1]
                  /\ e.participation_deadline[1] <= e.end_date

\* before its start an event has its deadline on its end date, two units
\* after its start date: an end date between the two is refused
C17_Witness ==
    \E id \in DOMAIN event :
        LET e == event[id]
        IN  /\ now < e.start_date
            /\ e.participation_deadline = Some(e.end_date)
            /\ e.start_date < e.end_date - 1
            /\ UpdateEventEndDateIx(e.authority, id, e.end_date - 1).err
                   = "InvalidEndDate"

----------------------------------------------------------------------------
(* C18 *)

\* the vault of an event holds the event's stake until the event is
\* cancelled and nothing afterwards; an identifier without event has no vault
VaultHoldsStake ==
    \A id \in EventIds :
        lamports.event[id] =
            IF id \in DOMAIN event /\ ~event[id].canceled
            THEN event[id].stake ELSE 0

\* a vault is paid into by the CreateEvent of its event only, and paid out of
\* only by the CancelEvent that sets canceled, which takes exactly the stake
VaultPaysOnce ==
    \A id \in EventIds :
        /\ lamports'.event[id] > lamports.event[id] =>
              /\ id \notin DOMAIN event
              /\ id \in DOMAIN event'
        /\ lamports'.event[id] < lamports.event[id] =>
              /\ id \in DOMAIN event
              /\ ~event[id].canceled
              /\ event'[id].canceled
              /\ lamports.event[id] - lamports'.event[id] = event[id].stake

\* C18: with withdraw_sol failing when the source holds less than the amount,
\* each event's vault holds exactly Event.stake while canceled is false and
\* exactly 0 once it is true, and what leaves a vault leaves it in one
\* payment of Event.stake, made by the CancelEvent that sets canceled: a
\* repeated CancelEvent pays nothing.
C18_VaultAccounting == []VaultHoldsStake /\ [][VaultPaysOnce]_vars

\* one event cancelled, its vault empty and its stake paid out once; another
\* event of the same creator not cancelled, its vault holding its stake
C18_Witness ==
    \E id1, id2 \in DOMAIN event :
        /\ event[id1].canceled /\ lamports.event[id1] = 0
        /\ ~event[id2].canceled /\ lamports.event[id2] = event[id2].stake
        /\ event[id1].authority = event[id2].authority
        /\ AdminBalance + lamports.user[event[id1].authority] = event[id1].stake
        /\ CancelEventIx(event[id1].authority, state.authority, id1, TRUE).err
               = "InsufficientFunds"

----------------------------------------------------------------------------
(* C19 *)

\* C19: every successful CancelEvent whose caller is not the event's creator
\* happens at now >= start_date and takes the forfeiture branch: the stake
\* goes from the vault to the admin recorded in the State account and the
\* creator's stake and the balance of the creator's user account are as
\* before.  A successful CancelEvent that credits the creator (the refund
\* branch) has the creator as its caller and happens at now < start_date.
C19_NonCreatorNeverRefunds ==
    \A id \in DOMAIN event :
      \A sender \in Principals, contract_admin \in Wallets, oc \in BOOLEAN :
        LET e == event[id]
            o == e.authority
            out == CancelEventIx(sender, contract_admin, id, oc)
            post == Effect(out)
            refunded == \/ post.user[o].stake # user[o].stake
                        \/ post.lamports.user[o] # lamports.user[o]
        IN  out.err = Ok =>
              /\ sender # o =>
                    /\ now >= e.start_date
                    /\ ~refunded
                    /\ post.lamports.event[id] = lamports.event[id] - e.stake
                    /\ post.lamports.wallet[state.authority]
                         = lamports.wallet[state.authority] + e.stake
              /\ refunded => sender = o /\ now < e.start_date

\* past the grace deadline a caller who is not the creator can cancel an
\* event not yet cancelled: the admin gets the stake, the creator nothing
C19_Witness ==
    \E id \in DOMAIN event, sender \in Principals :
        LET o == event[id].authority
            out == CancelEventIx(sender, state.authority, id, TRUE)
        IN  /\ sender # o
            /\ ~event[id].canceled
            /\ now > event[id].end_date + COMPLETION_DEADLINE
            /\ out.err = Ok
            /\ Effect(out).lamports.wallet[state.authority]
                 = AdminBalance + event[id].stake
            /\ Effect(out).user[o].stake = user[o].stake
            /\ Effect(out).lamports.user[o] = lamports.user[o]

----------------------------------------------------------------------------
(* C20 *)

\* C20: the clock never goes back, and from now >= start_date on no step
\* changes the event's end_date, participation_deadline, name or description;
\* the instant end_date + COMPLETION_DEADLINE after which any caller may cancel
\* is therefore fixed from the start of the event.
C20_ScheduleFreezes ==
    [][/\ now' >= now
       /\ \A id \in DOMAIN event :
            now >= event[id].start_date =>
              /\ id \in DOMAIN event' /\ id \in DOMAIN event_meta'
              /\ now' >= event'[id].start_date
              /\ event'[id].end_date = event[id].end_date
              /\ event'[id].participation_deadline
                   = event[id].participation_deadline
              /\ event_meta'[id].name = event_meta[id].name
              /\ event_meta'[id].description = event_meta[id].description]_vars

\* at its start date an event that could still take a later end date by its
\* bounds refuses every edit of its creator
C20_Witness ==
    \E id \in DOMAIN event :
        LET e == event[id]
            a == e.authority
        IN  /\ now = e.start_date
            /\ e.end_date < MaxDate
            /\ UpdateEventEndDateIx(a, id, e.end_date + 1).err
                   = "EventAlreadyStarted"
            /\ UpdateEventParticipationDeadlineIx(a, id, None).err
                   = "EventAlreadyStarted"
            /\ \A n \in Names :
                   UpdateEventNameIx(a, id, n).err = "EventAlreadyStarted"
            /\ \A d \in Descriptions :
                   UpdateEventDescriptionIx(a, id, d).err = "EventAlreadyStarted"

====
